---------------------------- MODULE Spec2Model ----------------------------
(***************************************************************************)
(* A model of the indiamart textile scraper:                               *)
(*   - the spider of indiamart_scraper/spiders/textiles_spider.py          *)
(*     (parse, parse_product_detail) driven by a scheduler that fetches    *)
(*     every request the callbacks yield, and                              *)
(*   - the batch pipeline of etl/data_cleaner.py                           *)
(*     (load_raw_data, clean_data, process_price, save_processed_data,     *)
(*     main).                                                              *)
(*                                                                         *)
(* Text is modelled as a sequence of one-character strings, so that        *)
(* strip, lower, replace, substring containment and the price regex are    *)
(* computed character by character.  The characters U+20B9 (rupee sign)    *)
(* and U+20AC (euro sign) are written by their code point.  Python's None  *)
(* is the one-element sequence <<"None">> and pandas' missing value is     *)
(* <<"NaN">>; neither is a text, as every element of a text is a single    *)
(* character.                                                              *)
(***************************************************************************)
EXTENDS Integers, Sequences, FiniteSets, Bags, TLC

VARIABLES
    pc,          \* position of the program under study
    price_in,    \* process_price: the DataFrame handed to it
    price_out,   \* process_price: the DataFrame it returns
    page,        \* a spider callback's response (listing or detail page)
    emitted,     \* what that callback yielded, in order
    site,        \* crawl: listing URL -> href of its "Next" link
    pending,     \* crawl: bag of requests handed to the scheduler
    visits,      \* crawl: listing URL -> number of times parse ran on it
    delivered,   \* crawl: bag of detail URLs parse_product_detail ran on
    records,     \* crawl: bag of items yielded
    files,       \* pipeline: the *.json files of the raw directory, glob order
    raw_df,      \* pipeline: main's raw_df
    processed_df,\* pipeline: main's processed_df
    out_dir,     \* pipeline: state of the output directory
    out_file,    \* pipeline: rows of the written CSV, or NoFile
    log          \* pipeline: levels of the log lines written so far

vars == <<pc, price_in, price_out, page, emitted, site, pending, visits,
          delivered, records, files, raw_df, processed_df, out_dir, out_file,
          log>>

-----------------------------------------------------------------------------
(* Values and text helpers                                                 *)

None == <<"None">>
NaN == <<"NaN">>

RUPEE == "U+20B9"
EURO == "U+20AC"

Digits == {"0", "1", "2", "3", "4", "5", "6", "7", "8", "9"}
LowerLetters == {"a", "b", "c", "d", "e", "f", "g", "h", "i", "j", "k", "l",
                 "m", "n", "o", "p", "q", "r", "s", "t", "u", "v", "w", "x",
                 "y", "z"}
UpperLetters == {"A", "B", "C", "D", "E", "F", "G", "H", "I", "J", "K", "L",
                 "M", "N", "O", "P", "Q", "R", "S", "T", "U", "V", "W", "X",
                 "Y", "Z"}
Letters == LowerLetters \cup UpperLetters
Spaces == {" "}

Max(S) == CHOOSE x \in S : \A y \in S : y <= x
Min(S) == CHOOSE x \in S : \A y \in S : x <= y

\* Python's truth value of an optional text: None and "" are false.
Truthy(t) == t # None /\ t # <<>>

\* End (exclusive) of the longest run of characters of class C starting at p.
RunEnd(s, p, C) ==
    Max({e \in p..(Len(s) + 1) : \A k \in p..(e - 1) : s[k] \in C})

\* Does the text lit occur in s at position p?
At(s, p, lit) ==
    /\ p + Len(lit) - 1 <= Len(s)
    /\ \A k \in 1..Len(lit) : s[p + k - 1] = lit[k]

\* Python's `sub in s`.
Contains(sub, s) == \E p \in 1..(Len(s) + 1) : At(s, p, sub)

\* str.strip(): drop leading and trailing whitespace.
Strip(s) ==
    LET a == RunEnd(s, 1, Spaces)
        keep == {k \in 1..Len(s) : s[k] \notin Spaces}
    IN  IF keep = {} THEN <<>> ELSE SubSeq(s, a, Max(keep))

LowerChar(c) ==
    CASE c = "A" -> "a" [] c = "B" -> "b" [] c = "C" -> "c" [] c = "D" -> "d"
      [] c = "E" -> "e" [] c = "F" -> "f" [] c = "G" -> "g" [] c = "H" -> "h"
      [] c = "I" -> "i" [] c = "J" -> "j" [] c = "K" -> "k" [] c = "L" -> "l"
      [] c = "M" -> "m" [] c = "N" -> "n" [] c = "O" -> "o" [] c = "P" -> "p"
      [] c = "Q" -> "q" [] c = "R" -> "r" [] c = "S" -> "s" [] c = "T" -> "t"
      [] c = "U" -> "u" [] c = "V" -> "v" [] c = "W" -> "w" [] c = "X" -> "x"
      [] c = "Y" -> "y" [] c = "Z" -> "z" [] OTHER -> c

\* str.lower()
Lower(s) == [k \in 1..Len(s) |-> LowerChar(s[k])]

\* str.replace(c, ''): every occurrence of the character c is removed.
RemoveChar(s, c) == SelectSeq(s, LAMBDA x : x # c)

\* "".join(texts)
RECURSIVE Join(_)
Join(texts) == IF texts = <<>> THEN <<>> ELSE Head(texts) \o Join(Tail(texts))


-----------------------------------------------------------------------------
(* DataFrames: the column names, the index labels of the rows and the     *)
(* rows; a row is a function from the column names to values.              *)

DataFrame(cols, index, rows) == [columns |-> cols, index |-> index, rows |-> rows]

\* RangeIndex(n): the labels 0 .. n-1
RangeIndex(n) == [k \in 1..n |-> k - 1]

\* pd.DataFrame()
EmptyFrame == DataFrame(<<>>, <<>>, <<>>)

\* df.empty
IsEmpty(df) == df.columns = <<>> \/ df.rows = <<>>

HasColumn(df, c) == \E k \in 1..Len(df.columns) : df.columns[k] = c

\* df[c] = values: overwrite the column in place, or append it as the last one.
SetColumn(df, c, values) ==
    DataFrame(
        IF HasColumn(df, c) THEN df.columns ELSE Append(df.columns, c),
        df.index,
        [k \in 1..Len(df.rows) |->
            [d \in DOMAIN df.rows[k] \cup {c} |->
                IF d = c THEN values[k] ELSE df.rows[k][d]]])

\* df.drop(columns=cs)
DropColumns(df, cs) ==
    DataFrame(
        SelectSeq(df.columns, LAMBDA c : c \notin cs),
        df.index,
        [k \in 1..Len(df.rows) |->
            [d \in (DOMAIN df.rows[k]) \ cs |-> df.rows[k][d]]])

\* The numbers of the set S in increasing order.
Sorted(S) ==
    [k \in 1..Cardinality(S) |->
        CHOOSE x \in S : Cardinality({y \in S : y < x}) = k - 1]

\* The rows at the given positions, with their index labels.
TakeRows(df, ps) ==
    DataFrame(df.columns,
              [k \in 1..Len(ps) |-> df.index[ps[k]]],
              [k \in 1..Len(ps) |-> df.rows[ps[k]]])

\* The output file before anything was written.
NoFile == [exists |-> FALSE, header |-> <<>>, rows |-> <<>>]

\* The variables a specification does not use keep these values.
PriceIdle == price_in = EmptyFrame /\ price_out = EmptyFrame
SpiderIdle == page = None /\ emitted = <<>>
CrawlIdle ==
    /\ site = <<>>
    /\ pending = EmptyBag
    /\ visits = <<>>
    /\ delivered = EmptyBag
    /\ records = EmptyBag
EtlIdle ==
    /\ files = <<>>
    /\ raw_df = EmptyFrame
    /\ processed_df = EmptyFrame
    /\ out_dir = "absent"
    /\ out_file = NoFile
    /\ log = <<>>

-----------------------------------------------------------------------------
(* Price Normalizer: etl/data_cleaner.py, process_price                    *)

\* A float, as <<mantissa, scale>> for mantissa / 10^scale, in lowest terms
\* of the scale, so that "1200.50" and "1200.5" are the same number.
RECURSIVE Normalize(_, _)
Normalize(m, sc) ==
    IF sc > 0 /\ m % 10 = 0 THEN Normalize(m \div 10, sc - 1) ELSE <<m, sc>>

DigitVal(c) ==
    CASE c = "0" -> 0 [] c = "1" -> 1 [] c = "2" -> 2 [] c = "3" -> 3
      [] c = "4" -> 4 [] c = "5" -> 5 [] c = "6" -> 6 [] c = "7" -> 7
      [] c = "8" -> 8 [] c = "9" -> 9

RECURSIVE IntOf(_)
IntOf(ds) ==
    IF ds = <<>> THEN 0
    ELSE 10 * IntOf(SubSeq(ds, 1, Len(ds) - 1)) + DigitVal(ds[Len(ds)])

\* pd.to_numeric(text, errors='coerce') on a text made of digits and at most
\* one '.', which is all the new_price group yields once its commas are
\* removed: a text without any digit ("" or ".") is coerced to NaN.
ToNumeric(t) ==
    IF t = NaN THEN NaN
    ELSE LET ds == SelectSeq(t, LAMBDA c : c \in Digits)
             dot == {k \in 1..Len(t) : t[k] = "."}
             sc == IF dot = {} THEN 0 ELSE Len(t) - Min(dot)
         IN  IF ds = <<>> THEN NaN ELSE Normalize(IntOf(ds), sc)

\* The alternatives of (?P<currency_symbol>U+20B9|Rs\.?|\$|U+20AC)? at position i, in
\* the order the regex engine tries them; NaN is the group not taking part.
SymbolCandidates(s, i) ==
    (IF At(s, i, <<RUPEE>>) THEN << <<RUPEE>> >>
     ELSE IF At(s, i, <<"R", "s", ".">>) THEN << <<"R", "s", ".">>, <<"R", "s">> >>
     ELSE IF At(s, i, <<"R", "s">>) THEN << <<"R", "s">> >>
     ELSE IF At(s, i, <<"$">>) THEN << <<"$">> >>
     ELSE IF At(s, i, <<EURO>>) THEN << <<EURO>> >>
     ELSE <<>>) \o <<NaN>>

\* Where [\d,]+ would start when the match starts at i with symbol sym.
NumberStart(s, i, sym) ==
    RunEnd(s, i + (IF sym = NaN THEN 0 ELSE Len(sym)), Spaces)

SymbolWorks(s, i, sym) ==
    LET p == NumberStart(s, i, sym)
    IN  p <= Len(s) /\ s[p] \in Digits \cup {","}

NoMatch == [currency_symbol |-> NaN, new_price |-> NaN, unit |-> NaN]

\* The groups of price_regex matched at start position i (precondition: some
\* symbol candidate works there).
MatchAt(s, i) ==
    LET cands == SymbolCandidates(s, i)
        sym == cands[Min({k \in 1..Len(cands) : SymbolWorks(s, i, cands[k])})]
        p == NumberStart(s, i, sym)
        a == RunEnd(s, p, Digits \cup {","})
        b == IF a <= Len(s) /\ s[a] = "." THEN a + 1 ELSE a
        e == RunEnd(s, b, Digits)
        u1 == RunEnd(s, e, Spaces)
        u2 == RunEnd(s, u1 + 1, Spaces)
        u3 == RunEnd(s, u2, Letters)
        hasUnit == u1 <= Len(s) /\ s[u1] = "/" /\ u3 > u2
    IN  [currency_symbol |-> sym,
         new_price |-> SubSeq(s, p, e - 1),
         unit |-> IF hasUnit THEN SubSeq(s, u2, u3 - 1) ELSE NaN]

\* Series.str.extract(price_regex) on one cell: the groups of the leftmost
\* match (re.search), all NaN when the cell is null or nothing matches.
Extract(s) ==
    IF s = None \/ s = NaN THEN NoMatch
    ELSE LET starts == {i \in 1..Len(s) :
                          \E k \in 1..Len(SymbolCandidates(s, i)) :
                              SymbolWorks(s, i, SymbolCandidates(s, i)[k])}
         IN  IF starts = {} THEN NoMatch ELSE MatchAt(s, Min(starts))

\* currency_map, applied by Series.map: a symbol without an entry, and the
\* missing symbol, give NaN.
currency_map(sym) ==
    CASE sym = <<RUPEE>> -> <<"I", "N", "R">>
      [] sym = <<"R", "s", ".">> -> <<"I", "N", "R">>
      [] sym = <<"R", "s">> -> <<"I", "N", "R">>
      [] sym = <<"$">> -> <<"U", "S", "D">>
      [] sym = <<EURO>> -> <<"E", "U", "R">>
      [] OTHER -> NaN

\* The new 'price' cell: commas removed, then to_numeric.
NewPrice(ex) ==
    ToNumeric(IF ex.new_price = NaN THEN NaN ELSE RemoveChar(ex.new_price, ","))

\* Faulty variant of NewCurrency, for sensitivity analysis: the default 'INR' is never filled in.
NewCurrency_NoDefault(ex) == currency_map(ex.currency_symbol)

\* The new 'currency' cell: the mapped symbol, and 'INR' where a price was
\* parsed and the mapped symbol is missing.
NewCurrency(ex) ==
    IF NewPrice(ex) # NaN /\ currency_map(ex.currency_symbol) = NaN
    THEN <<"I", "N", "R">>
    ELSE currency_map(ex.currency_symbol)

process_price(df) ==
    IF ~HasColumn(df, "price") THEN df
    ELSE LET ex == [k \in 1..Len(df.rows) |-> Extract(df.rows[k]["price"])]
             d1 == SetColumn(df, "price", [k \in 1..Len(ex) |-> NewPrice(ex[k])])
             d2 == SetColumn(d1, "unit", [k \in 1..Len(ex) |-> ex[k].unit])
         IN  SetColumn(d2, "currency", [k \in 1..Len(ex) |-> NewCurrency(ex[k])])

-----------------------------------------------------------------------------
(* The spider: indiamart_scraper/spiders/textiles_spider.py                *)
(*                                                                         *)
(* A URL is a text of one token (<<"L1">>), so that it compares with None  *)
(* and with the empty href.  The hrefs of the model are absolute URLs, for *)
(* which response.follow's urljoin returns the href itself.                *)

Request(url, callback) == [url |-> url, callback |-> callback]

\* response.follow(href, callback=...)
Follow(response, href, callback) == Request(href, callback)

\* Faulty variant of parse, for sensitivity analysis: the Listing request is yielded before the Detail ones.
parse_NextFirst(response) ==
    LET withUrl == SelectSeq(response.cards, Truthy)
    IN  (IF Truthy(response.next_href)
         THEN <<Follow(response, response.next_href, "parse")>>
         ELSE <<>>) \o
        [k \in 1..Len(withUrl) |->
            Follow(response, withUrl[k], "parse_product_detail")]

\* Faulty variant of parse, for sensitivity analysis: the "Next" link is not followed.
parse_NoPagination(response) ==
    LET withUrl == SelectSeq(response.cards, Truthy)
    IN  [k \in 1..Len(withUrl) |->
            Follow(response, withUrl[k], "parse_product_detail")]

\* Faulty variant of parse, for sensitivity analysis: the loop over the cards ends at the first request.
parse_FirstCardOnly(response) ==
    LET withUrl == SelectSeq(response.cards, Truthy)
    IN  (IF withUrl = <<>> THEN <<>>
         ELSE <<Follow(response, withUrl[1], "parse_product_detail")>>) \o
        (IF Truthy(response.next_href)
         THEN <<Follow(response, response.next_href, "parse")>>
         ELSE <<>>)

\* TextileSpider.parse on a listing response
\* [url, cards: the a.prodNameClamp href of each li.mList card, or None,
\*  next_href: the href of a[title="Next"], or None]: the requests it yields,
\* in order.
parse(response) ==
    LET withUrl == SelectSeq(response.cards, Truthy)
        details == [k \in 1..Len(withUrl) |->
                       Follow(response, withUrl[k], "parse_product_detail")]
    IN  details \o
        (IF Truthy(response.next_href)
         THEN <<Follow(response, response.next_href, "parse")>>
         ELSE <<>>)

\* "".join(texts).strip() if texts else None
JoinedOrNone(texts) == IF texts # <<>> THEN Strip(Join(texts)) ELSE None

\* key.strip().lower().replace(':', '')
CleanKey(key) == RemoveChar(Lower(Strip(key)), ":")

\* Faulty variant of DictSet, for sensitivity analysis: a key set again moves to the end of the dict.
DictSet_MoveToEnd(d, key, value) ==
    Append(SelectSeq(d, LAMBDA e : e[1] # key), <<key, value>>)

\* d[key] = value on a dict kept as its list of <<key, value>> in insertion
\* order: an existing key keeps its place and takes the new value.
DictSet(d, key, value) ==
    IF \E k \in 1..Len(d) : d[k][1] = key
    THEN [k \in 1..Len(d) |-> IF d[k][1] = key THEN <<key, value>> ELSE d[k]]
    ELSE Append(d, <<key, value>>)

\* The loop over the rows of the specification table that builds
\* details_dict; a row is [key, value], each the first text of its cell or
\* None.
RECURSIVE DetailsDict(_)
DetailsDict(rows) ==
    IF rows = <<>> THEN <<>>
    ELSE LET d == DetailsDict(SubSeq(rows, 1, Len(rows) - 1))
             row == rows[Len(rows)]
         IN  IF Truthy(row.key) /\ Truthy(row.value)
             THEN DictSet(d, CleanKey(row.key), Strip(row.value))
             ELSE d

Kw_fabric == <<"f", "a", "b", "r", "i", "c">>
Kw_material == <<"m", "a", "t", "e", "r", "i", "a", "l">>
Kw_pattern == <<"p", "a", "t", "t", "e", "r", "n">>
Kw_gsm == <<"g", "s", "m">>
Kw_usage == <<"u", "s", "a", "g", "e">>
Kw_availability == <<"a", "v", "a", "i", "l", "a", "b", "i", "l", "i", "t", "y">>

\* The test each `if` of the mapping loop applies to a key, by item field.
KeyMatches(field, key) ==
    CASE field = "fabric_type" -> Contains(Kw_fabric, key) \/ Contains(Kw_material, key)
      [] field = "pattern" -> Contains(Kw_pattern, key)
      [] field = "gsm" -> Contains(Kw_gsm, key)
      [] field = "usage" -> Contains(Kw_usage, key)
      [] field = "availability" -> Contains(Kw_availability, key)

SpecFields == {"fabric_type", "pattern", "gsm", "usage", "availability"}

\* One pass of the body of `for key, value in details_dict.items()`.
MapEntry(item, key, value) ==
    [f \in DOMAIN item |->
        IF f \in SpecFields /\ KeyMatches(f, key) THEN value ELSE item[f]]

\* The mapping loop, over details_dict in insertion order.
RECURSIVE MapDetails(_, _)
MapDetails(item, d) ==
    IF d = <<>> THEN item
    ELSE MapDetails(MapEntry(item, d[1][1], d[1][2]), Tail(d))

\* .get(): the first match, or None
First(seq) == IF seq = <<>> THEN None ELSE seq[1]

\* TextileSpider.parse_product_detail on a detail response
\* [url, name, dispid, price_texts, location, images, brand, desc_texts,
\*  rows], each selector's matches in document order: the items it yields.
parse_product_detail(response) ==
    LET item == [product_url |-> response.url,
                 product_name |-> First(response.name),
                 product_id |-> First(response.dispid),
                 price |-> JoinedOrNone(response.price_texts),
                 location |-> First(response.location),
                 images |-> response.images,
                 brand |-> First(response.brand),
                 product_description |-> JoinedOrNone(response.desc_texts),
                 fabric_type |-> None,
                 pattern |-> None,
                 gsm |-> None,
                 usage |-> None,
                 availability |-> None]
    IN  <<MapDetails(item, DetailsDict(response.rows))>>

-----------------------------------------------------------------------------
(* Specification SpecPrice: process_price applied to a one-row DataFrame   *)
(* whose price cell is null, any text of at most MaxPriceLen characters of *)
(* PriceAlphabet, or one of the texts of the price parsing table.          *)

MaxPriceLen == 4

PriceAlphabet == {"$", "R", "s", ".", " ", ",", "5", "/", "k"}

RECURSIVE TextsUpTo(_, _)
TextsUpTo(alphabet, n) ==
    IF n = 0 THEN {<<>>}
    ELSE LET shorter == TextsUpTo(alphabet, n - 1)
         IN  shorter \cup {Append(t, c) : t \in shorter, c \in alphabet}

Lit1 == <<RUPEE, " ", "1", ",", "2", "0", "0", ".", "5", "0", "/",
          "M", "e", "t", "e", "r">>
Lit2 == <<"R", "s", ".", " ", "4", "9", "9", "/", "P", "i", "e", "c", "e">>
Lit3 == <<"$", "5", "0">>
Lit4 == <<EURO, "7", "5", ".", "2", "5">>
Lit5 == <<"C", "o", "n", "t", "a", "c", "t", " ", "f", "o", "r", " ",
          "P", "r", "i", "c", "e">>
Lit6 == <<"1", "5", "0", "0">>

PriceTexts ==
    TextsUpTo(PriceAlphabet, MaxPriceLen)
        \cup {Lit1, Lit2, Lit3, Lit4, Lit5, Lit6} \cup {None}

PriceFrame(t) == DataFrame(<<"price">>, RangeIndex(1), <<[c \in {"price"} |-> t]>>)

InitPrice ==
    /\ pc = "price_start"
    /\ \E t \in PriceTexts : price_in = PriceFrame(t)
    /\ price_out = EmptyFrame
    /\ SpiderIdle /\ CrawlIdle /\ EtlIdle

ProcessPrice ==
    /\ pc = "price_start"
    /\ price_out' = process_price(price_in)
    /\ pc' = "price_done"
    /\ UNCHANGED <<price_in, page, emitted, site, pending, visits, delivered,
                   records, files, raw_df, processed_df, out_dir, out_file, log>>

NextPrice == ProcessPrice

SpecPrice == InitPrice /\ [][NextPrice]_vars

PriceText == price_in.rows[1]["price"]
PriceRow == price_out.rows[1]
INR == <<"I", "N", "R">>
USD == <<"U", "S", "D">>
EUR == <<"E", "U", "R">>

\* C4 (as claimed): whenever the amount process_price returns is null, the
\* currency it returns is null as well, whatever symbol the pattern captured.
C4_NullAmountNullCurrency ==
    pc = "price_done" => (PriceRow["price"] = NaN => PriceRow["currency"] = NaN)

\* What the claim's words expect of a text of the shape
\*   symbol, spaces, digits and commas [. digits] [/ letters]
\* cut at i (end of symbol), j (end of spaces), d (end of digits and commas),
\* k (end of the number): the currency of the symbol, the digits as a number
\* and the letters after the '/'.
ShapeAt(s, i, j, d, k) ==
    /\ SubSeq(s, 1, i) \in {<<>>, <<RUPEE>>, <<"R", "s", ".">>, <<"R", "s">>,
                            <<"$">>, <<EURO>>}
    /\ \A m \in (i + 1)..j : s[m] = " "
    /\ d > j
    /\ \A m \in (j + 1)..d : s[m] \in Digits \cup {","}
    /\ \E m \in (j + 1)..k : s[m] \in Digits
    /\ \/ k = d
       \/ k > d /\ s[d + 1] = "." /\ \A m \in (d + 2)..k : s[m] \in Digits
    /\ k < Len(s) => s[k + 1] \notin Digits \cup {","}
    /\ (k = d /\ k < Len(s)) => s[k + 1] # "."
    /\ \/ k = Len(s)
       \/ /\ k + 2 <= Len(s)
          /\ s[k + 1] = "/"
          /\ \A m \in (k + 2)..Len(s) : s[m] \in Letters

ExpectedCurrency(sym) ==
    IF sym \in {<<>>, <<RUPEE>>, <<"R", "s", ".">>, <<"R", "s">>} THEN INR
    ELSE IF sym = <<"$">> THEN USD ELSE EUR

ExpectedRow(s, i, j, d, k) ==
    [price |-> Normalize(
                   IntOf(SelectSeq(SubSeq(s, j + 1, k), LAMBDA c : c \in Digits)),
                   IF k > d THEN k - d - 1 ELSE 0),
     unit |-> IF k = Len(s) THEN NaN ELSE SubSeq(s, k + 2, Len(s)),
     currency |-> ExpectedCurrency(SubSeq(s, 1, i))]

Row(price, unit, currency) ==
    [price |-> price, unit |-> unit, currency |-> currency]

-----------------------------------------------------------------------------
(* Specification SpecDetail: parse_product_detail applied to a detail page *)
(* whose specification table is any list of at most MaxRows rows, each     *)
(* with a label of RawLabels or none and a value of RawValues or none.     *)

MaxRows == 3

RawLabels ==
    {<<"F", "a", "b", "r", "i", "c">>,
     <<" ", "f", "a", "b", "r", "i", "c", ":">>,
     <<"M", "a", "t", "e", "r", "i", "a", "l">>,
     <<"G", "S", "M">>,
     <<"F", "a", "b", "r", "i", "c", " ", "G", "S", "M">>}

RawValues == {<<"A">>, <<" ", "B">>}

TableRows ==
    [key : RawLabels \cup {None}, value : RawValues \cup {None}]

RECURSIVE SeqsUpTo(_, _)
SeqsUpTo(S, n) ==
    IF n = 0 THEN {<<>>}
    ELSE LET shorter == SeqsUpTo(S, n - 1)
         IN  shorter \cup {Append(q, x) : q \in shorter, x \in S}

\* A detail page of the site: every selector but the table's is fixed.
DetailResponse(url, rows) ==
    [url |-> url,
     name |-> << <<"S", "i", "l", "k">> >>,
     dispid |-> << <<"7">> >>,
     price_texts |-> << <<" ", "$", "5">>, <<"/", "k", " ">> >>,
     location |-> <<>>,
     images |-> << <<"i", "1">>, <<"i", "2">> >>,
     brand |-> << <<"A", "c", "m", "e">> >>,
     desc_texts |-> <<>>,
     rows |-> rows]

InitDetail ==
    /\ pc = "detail_start"
    /\ \E rows \in SeqsUpTo(TableRows, MaxRows) :
           page = DetailResponse(<<"D1">>, rows)
    /\ emitted = <<>>
    /\ PriceIdle /\ CrawlIdle /\ EtlIdle

ParseDetail ==
    /\ pc = "detail_start"
    /\ emitted' = parse_product_detail(page)
    /\ pc' = "detail_done"
    /\ UNCHANGED <<price_in, price_out, page, site, pending, visits, delivered,
                   records, files, raw_df, processed_df, out_dir, out_file, log>>

NextDetail == ParseDetail

SpecDetail == InitDetail /\ [][NextDetail]_vars

\* The rows of the page that carry both a label and a value.
KeptRows ==
    {k \in 1..Len(page.rows) :
        /\ page.rows[k].key \notin {None, <<>>}
        /\ page.rows[k].value \notin {None, <<>>}}

LabelOf(k) == CleanKey(page.rows[k].key)

\* The kept rows whose label matches the synonym set of field f.
MatchingRows(f) == {k \in KeptRows : KeyMatches(f, LabelOf(k))}

\* The first kept row carrying the same normalized label as row k.
FirstWithLabel(k) == Min({j \in KeptRows : LabelOf(j) = LabelOf(k)})

\* The last kept row carrying the same normalized label as row k.
LastWithLabel(k) == Max({j \in KeptRows : LabelOf(j) = LabelOf(k)})

-----------------------------------------------------------------------------
(* Specification SpecParse: parse applied to a listing page with any list  *)
(* of at most MaxCards cards, each with an href of CardHrefs or none, and  *)
(* any "Next" href of NextHrefs or none.                                   *)

MaxCards == 3

CardHrefs == {<<>>, <<"D1">>, <<"D2">>}
NextHrefs == {<<>>, <<"L1">>, <<"L2">>}

ListingResponse(url, cards, next_href) ==
    [url |-> url, cards |-> cards, next_href |-> next_href]

InitParse ==
    /\ pc = "parse_start"
    /\ \E cards \in SeqsUpTo(CardHrefs \cup {None}, MaxCards),
          next_href \in NextHrefs \cup {None} :
           page = ListingResponse(<<"L1">>, cards, next_href)
    /\ emitted = <<>>
    /\ PriceIdle /\ CrawlIdle /\ EtlIdle

ParseListing ==
    /\ pc = "parse_start"
    /\ emitted' = parse(page)
    /\ pc' = "parse_done"
    /\ UNCHANGED <<price_in, price_out, page, site, pending, visits, delivered,
                   records, files, raw_df, processed_df, out_dir, out_file, log>>

NextParse == ParseListing

SpecParse == InitParse /\ [][NextParse]_vars

\* The cards of the page that have a detail URL.
CardsWithUrl == {k \in 1..Len(page.cards) : page.cards[k] \notin {None, <<>>}}

\* The m-th of them in page order.
NthCardWithUrl(m) ==
    CHOOSE k \in CardsWithUrl : Cardinality({j \in CardsWithUrl : j < k}) = m - 1

HasNext == page.next_href \notin {None, <<>>}

\* C6: parse yields one Detail request per card that has a URL, in page
\* order, none for the other cards, then one Listing request when there is a
\* next-page link and none otherwise; it yields nothing else (no item), and
\* nothing at all for a page without cards and next link.
C6_ListingEmissionOrder ==
    pc = "parse_done" =>
        LET n == Cardinality(CardsWithUrl)
        IN  /\ Len(emitted) = n + (IF HasNext THEN 1 ELSE 0)
            /\ \A m \in 1..n :
                   emitted[m] = [url |-> page.cards[NthCardWithUrl(m)],
                                 callback |-> "parse_product_detail"]
            /\ HasNext =>
                   emitted[n + 1] = [url |-> page.next_href, callback |-> "parse"]
            /\ (page.cards = <<>> /\ ~HasNext) => emitted = <<>>

\* C6's case: a page with a card without URL between two cards with one, and a
\* next link; three requests, the Listing one last.
C6_Witness ==
    /\ pc = "parse_done"
    /\ page.cards = << <<"D2">>, None, <<"D1">> >>
    /\ page.next_href = <<"L2">>
    /\ Len(emitted) = 3
    /\ emitted[3].callback = "parse"

-----------------------------------------------------------------------------
(* Specification SpecCrawl: the spider under a scheduler that fetches      *)
(* every request the callbacks yield, in any order, and filters none.      *)
(* The site has the listing pages ListingUrls, whose cards are fixed and   *)
(* whose "Next" links are any function into the listing pages or missing,  *)
(* and the detail pages DetailUrls.  parse runs at most MaxVisits times on *)
(* one listing page, which stops the exploration of a cyclic site.         *)

MaxVisits == 3

ListingUrls == {<<"L1">>, <<"L2">>, <<"L3">>}
DetailUrls == {<<"D1">>, <<"D2">>}

\* TextileSpider.start_urls, cut down to two of the site's listing pages.
start_urls == << <<"L1">>, <<"L2">> >>

\* The card hrefs of each listing page.
CardsOf(u) ==
    CASE u = <<"L1">> -> << <<"D1">>, None, <<"D2">> >>
      [] u = <<"L2">> -> << <<"D2">> >>
      [] OTHER -> <<>>

\* The specification table of each detail page.
RowsOf(d) ==
    IF d = <<"D1">>
    THEN << [key |-> <<"U", "s", "a", "g", "e", ":">>, value |-> <<"A">>],
            [key |-> <<"P", "a", "t", "t", "e", "r", "n">>, value |-> <<" ", "B">>] >>
    ELSE << [key |-> <<"A", "v", "a", "i", "l", "a", "b", "i", "l", "i", "t", "y">>,
             value |-> <<"A">>],
            [key |-> <<"M", "a", "t", "e", "r", "i", "a", "l">>, value |-> None] >>

\* The response the scheduler hands to parse for a listing request.
FetchListing(req) == ListingResponse(req.url, CardsOf(req.url), site[req.url])

\* The response the scheduler hands to parse_product_detail for a detail
\* request: the page of that URL.
DetailPages == [d \in DetailUrls |-> DetailResponse(d, RowsOf(d))]

\* What parse_product_detail yields on each detail page of the site; it reads
\* nothing but the response.
DetailItems == [d \in DetailUrls |-> parse_product_detail(DetailPages[d])]

RECURSIVE SeqToBag(_)
SeqToBag(q) == IF q = <<>> THEN EmptyBag ELSE SetToBag({Head(q)}) (+) SeqToBag(Tail(q))

\* Spider.start_requests: one request per start URL, for parse.
InitCrawl ==
    /\ pc = "crawl"
    /\ site \in [ListingUrls -> ListingUrls \cup {None}]
    /\ pending = SeqToBag([k \in 1..Len(start_urls) |-> Request(start_urls[k], "parse")])
    /\ visits = [u \in ListingUrls |-> 0]
    /\ delivered = EmptyBag
    /\ records = EmptyBag
    /\ PriceIdle /\ SpiderIdle /\ EtlIdle

\* The scheduler fetches a pending listing request and runs parse on the
\* response; the requests parse yields become pending.
DeliverListing ==
    \E req \in BagToSet(pending) :
        /\ req.callback = "parse"
        /\ visits[req.url] < MaxVisits
        /\ pending' = (pending (-) SetToBag({req})) (+) SeqToBag(parse(FetchListing(req)))
        /\ visits' = [visits EXCEPT ![req.url] = @ + 1]
        /\ UNCHANGED <<pc, price_in, price_out, page, emitted, site, delivered,
                       records, files, raw_df, processed_df, out_dir, out_file,
                       log>>

\* The scheduler fetches a pending detail request and runs
\* parse_product_detail on the response; the items it yields are output.
DeliverDetail ==
    \E req \in BagToSet(pending) :
        /\ req.callback = "parse_product_detail"
        /\ pending' = pending (-) SetToBag({req})
        /\ records' = records (+) SeqToBag(DetailItems[req.url])
        /\ delivered' = delivered (+) SetToBag({req.url})
        /\ UNCHANGED <<pc, price_in, price_out, page, emitted, site, visits,
                       files, raw_df, processed_df, out_dir, out_file, log>>

NextCrawl == DeliverListing \/ DeliverDetail

SpecCrawl == InitCrawl /\ [][NextCrawl]_vars

\* The scheduler leaves no deliverable request pending for ever.
FairCrawl == SpecCrawl /\ WF_vars(NextCrawl)

\* Does following the "Next" links from u end within n further pages?
RECURSIVE ChainEnds(_, _)
ChainEnds(u, n) ==
    IF site[u] \in {None, <<>>} THEN TRUE
    ELSE IF n = 0 THEN FALSE ELSE ChainEnds(site[u], n - 1)

\* The "Next" chain of u comes back to a page it has visited.
Cyclic(u) == ~ChainEnds(u, Cardinality(ListingUrls))

\* The pages of the "Next" chain of u, u included.
RECURSIVE ChainPages(_, _)
ChainPages(u, n) ==
    IF site[u] \in {None, <<>>} \/ n = 0 THEN {u}
    ELSE {u} \cup ChainPages(site[u], n - 1)

StartSet == {start_urls[k] : k \in 1..Len(start_urls)}

\* C9: on a site where the "Next" chain of a start page comes back to a page
\* already visited, a Listing request is pending in every state of the crawl:
\* the traversal never runs out of pending tasks, however many times the
\* pages of the cycle have been fetched.
C9_CycleNeverDrains ==
    (\E u \in StartSet : Cyclic(u)) =>
        \E req \in BagToSet(pending) : req.callback = "parse" /\ Cyclic(req.url)

\* C9's case: L1's next link points to L1 itself; L1 was fetched once as a
\* start page and twice more through its own link, its card D1 was emitted at
\* each fetch, and L1 is pending again.
C9_Witness ==
    /\ site[<<"L1">>] = <<"L1">>
    /\ site[<<"L2">>] = None
    /\ visits[<<"L1">>] = 3
    /\ CopiesIn(<<"D1">>, delivered)
         + CopiesIn(Request(<<"D1">>, "parse_product_detail"), pending) = 3
    /\ BagIn(Request(<<"L1">>, "parse"), pending)

\* The number of times the crawl of an acyclic site reaches listing page u:
\* once per start page whose chain holds u.
ExpectedVisits(u) ==
    Cardinality({k \in 1..Len(start_urls) :
                    u \in ChainPages(start_urls[k], Cardinality(ListingUrls))})

\* The number of Detail requests for d such a crawl yields.
ExpectedDeliveries(d) ==
    Cardinality(UNION {UNION {{<<k, u, c>> : c \in {c \in 1..Len(CardsOf(u)) :
                                                     CardsOf(u)[c] = d}} :
                                 u \in ChainPages(start_urls[k], Cardinality(ListingUrls))} :
                          k \in 1..Len(start_urls)})

Acyclic == \A u \in StartSet : ~Cyclic(u)

Quiescent ==
    /\ pending = EmptyBag
    /\ \A u \in ListingUrls : visits[u] = ExpectedVisits(u)
    /\ \A d \in DetailUrls : CopiesIn(d, delivered) = ExpectedDeliveries(d)
    /\ \A d \in DetailUrls :
           Cardinality({r \in BagToSet(records) : r.product_url = d})
               = (IF ExpectedDeliveries(d) > 0 THEN 1 ELSE 0)
    /\ \A r \in BagToSet(records) :
           CopiesIn(r, records) = ExpectedDeliveries(r.product_url)

\* One item per delivered Detail request, carrying that page's URL.
OneRecordPerDelivery ==
    /\ \A d \in DetailUrls :
           LET rs == {r \in BagToSet(records) : r.product_url = d}
           IN  IF CopiesIn(d, delivered) = 0 THEN rs = {}
               ELSE \E r \in rs : rs = {r} /\ CopiesIn(r, records) = CopiesIn(d, delivered)
    /\ \A r \in BagToSet(records) : r.product_url \in DetailUrls

\* C10: whatever order the scheduler delivers the requests in, every
\* delivered Detail request has yielded exactly one item with its page's URL,
\* and on a site without cycle the crawl ends with nothing pending, every
\* listing page parsed once per start chain through it and the items the site
\* determines: the same bag of items for every order, and no task yielded by
\* parse_product_detail.
C10_CrawlConverges ==
    /\ []OneRecordPerDelivery
    /\ [][DeliverDetail => BagCardinality(pending') = BagCardinality(pending) - 1]_vars
    /\ Acyclic => <>[]Quiescent

\* C10's case: the chain L1 -> L2 -> L3 has been crawled from both start
\* pages to the end; D2 was delivered three times, D1 once.
C10_Witness ==
    /\ site[<<"L1">>] = <<"L2">> /\ site[<<"L2">>] = <<"L3">> /\ site[<<"L3">>] = None
    /\ pending = EmptyBag
    /\ CopiesIn(<<"D2">>, delivered) = 3
    /\ CopiesIn(<<"D1">>, delivered) = 1
    /\ BagCardinality(records) = 4

-----------------------------------------------------------------------------
(* The batch pipeline: etl/data_cleaner.py                                 *)
(*                                                                         *)
(* A raw file is Unreadable (pd.read_json raises on it) or the list of the *)
(* records it holds.  The records carry the columns RawColumns of the      *)
(* spider's items; their price cells are texts or null.                    *)

Unreadable == [readable |-> FALSE, records |-> <<>>]
RawFile(recs) == [readable |-> TRUE, records |-> recs]

RawColumns ==
    <<"product_url", "product_name", "product_id", "price", "location", "images">>

\* pd.read_json(file, orient='records') on a readable file.
read_json(file) ==
    IF file.records = <<>> THEN EmptyFrame
    ELSE DataFrame(RawColumns, RangeIndex(Len(file.records)), file.records)

\* The columns of a then those of b that a lacks.
UnionColumns(a, b) ==
    a \o SelectSeq(b, LAMBDA c : \A k \in 1..Len(a) : a[k] # c)

\* pd.concat(dataframes, ignore_index=True): the rows of all frames in order,
\* a cell of a column the row's frame lacks being NaN.
RECURSIVE concat(_)
concat(dataframes) ==
    IF dataframes = <<>> THEN EmptyFrame
    ELSE LET rest == concat(SubSeq(dataframes, 1, Len(dataframes) - 1))
             last == dataframes[Len(dataframes)]
             cols == UnionColumns(rest.columns, last.columns)
             colset == {cols[k] : k \in 1..Len(cols)}
             rows == rest.rows \o last.rows
         IN  DataFrame(cols, RangeIndex(Len(rows)),
                 [k \in 1..Len(rows) |->
                     [c \in colset |->
                         IF c \in DOMAIN rows[k] THEN rows[k][c] ELSE NaN]])

\* Faulty variant of LoadLoop, for sensitivity analysis: the loop ends at the first file that cannot be read.
RECURSIVE LoadLoop_StopAtError(_)
LoadLoop_StopAtError(json_files) ==
    IF json_files = <<>> THEN [dataframes |-> <<>>, log |-> <<>>]
    ELSE IF ~Head(json_files).readable
    THEN [dataframes |-> <<>>, log |-> << <<"ERROR", "load_raw_data">> >>]
    ELSE LET after == LoadLoop_StopAtError(Tail(json_files))
         IN  [dataframes |-> <<read_json(Head(json_files))>> \o after.dataframes,
              log |-> << <<"INFO", "load_raw_data">> >> \o after.log]

\* The loop of load_raw_data over json_files: the frames read so far and the
\* lines logged so far; a file that cannot be read is logged and skipped.
RECURSIVE LoadLoop(_)
LoadLoop(json_files) ==
    IF json_files = <<>> THEN [dataframes |-> <<>>, log |-> <<>>]
    ELSE LET before == LoadLoop(SubSeq(json_files, 1, Len(json_files) - 1))
             file == json_files[Len(json_files)]
         IN  IF ~file.readable
             THEN [dataframes |-> before.dataframes,
                   log |-> Append(before.log, <<"ERROR", "load_raw_data">>)]
             ELSE [dataframes |-> Append(before.dataframes, read_json(file)),
                   log |-> Append(before.log, <<"INFO", "load_raw_data">>)]

\* load_raw_data: the frame it returns and the lines it logs.
load_raw_data(json_files) ==
    IF json_files = <<>>
    THEN [df |-> EmptyFrame, log |-> << <<"WARNING", "load_raw_data">> >>]
    ELSE LET loaded == LoadLoop(json_files)
         IN  IF loaded.dataframes = <<>>
             THEN [df |-> EmptyFrame,
                   log |-> Append(loaded.log, <<"WARNING", "load_raw_data">>)]
             ELSE [df |-> concat(loaded.dataframes), log |-> loaded.log]

\* Faulty variant of drop_duplicates, for sensitivity analysis: keep='last'.
drop_duplicates_KeepLast(df) ==
    TakeRows(df,
        Sorted({k \in 1..Len(df.rows) :
                   \A j \in (k + 1)..Len(df.rows) :
                       df.rows[j]["product_url"] # df.rows[k]["product_url"]}))

\* df.drop_duplicates(subset=['product_url'], keep='first'): a row stays when
\* no earlier row has its product_url; the rows keep their index labels.
drop_duplicates(df) ==
    TakeRows(df,
        Sorted({k \in 1..Len(df.rows) :
                   \A j \in 1..(k - 1) :
                       df.rows[j]["product_url"] # df.rows[k]["product_url"]}))

\* Faulty variant of reset_index, for sensitivity analysis: the index labels are left as they are.
reset_index_Skipped(df) == df

\* df.reset_index(drop=True)
reset_index(df) == DataFrame(df.columns, RangeIndex(Len(df.rows)), df.rows)

columns_to_drop == {"product_name", "product_url", "product_description", "images"}

\* df[final_cols]
final_cols(df) ==
    <<"product_id">>
        \o SelectSeq(df.columns,
               LAMBDA c : c \notin {"product_id", "price", "unit", "currency"})
        \o <<"price", "unit", "currency">>

\* clean_data on a frame whose rows carry product_url and price.
clean_data(df) ==
    IF IsEmpty(df) THEN df
    ELSE LET d1 == reset_index(drop_duplicates(df))
             d2 == SetColumn(d1, "product_id", [k \in 1..Len(d1.rows) |-> d1.index[k] + 1])
             d3 == process_price(d2)
             d4 == DropColumns(d3, columns_to_drop)
         IN  DataFrame(final_cols(d4), d4.index, d4.rows)

-----------------------------------------------------------------------------
(* Specification SpecEtl: main() of etl/data_cleaner.py, one action per    *)
(* call it makes.  The raw directory holds either one readable file with   *)
(* any batch of at most MaxBatch records of RawRecords, or any list of at  *)
(* most MaxFiles files of SmallFiles, unreadable ones among them.  The     *)
(* output directory is absent, present, or blocked (os.makedirs raises: a  *)
(* file of that name, a parent that cannot be written); "created" is an    *)
(* absent directory after os.makedirs.                                     *)

MaxBatch == 3
MaxFiles == 3

Urls == {<<"U1">>, <<"U2">>, <<"U3">>}

RawRecord(url, id, price) ==
    [product_url |-> url,
     product_name |-> <<"S", "i", "l", "k">>,
     product_id |-> id,
     price |-> price,
     location |-> <<"S", "u", "r", "a", "t">>,
     images |-> <<>>]

RawRecords ==
    {RawRecord(u, id, pr) :
        u \in Urls, id \in {None, <<"D", "7">>}, pr \in {None, <<"$", "5", "/", "k">>}}

SmallFiles ==
    {Unreadable,
     RawFile(<<>>),
     RawFile(<<RawRecord(<<"U1">>, None, <<"$", "5", "/", "k">>)>>),
     RawFile(<<RawRecord(<<"U2">>, <<"D", "7">>, None),
               RawRecord(<<"U1">>, <<"D", "7">>, None)>>)}

InitEtl ==
    /\ pc = "main_start"
    /\ \/ /\ \E batch \in SeqsUpTo(RawRecords, MaxBatch) : files = <<RawFile(batch)>>
          /\ out_dir = "absent"
       \/ /\ files \in SeqsUpTo(SmallFiles, MaxFiles)
          /\ out_dir \in {"absent", "present", "blocked"}
    /\ raw_df = EmptyFrame
    /\ processed_df = EmptyFrame
    /\ out_file = NoFile
    /\ log = <<>>
    /\ PriceIdle /\ SpiderIdle /\ CrawlIdle

\* main, up to and including raw_df = load_raw_data(RAW_DATA_PATH).
LoadRawData ==
    /\ pc = "main_start"
    /\ raw_df' = load_raw_data(files).df
    /\ log' = << <<"INFO", "main">> >> \o load_raw_data(files).log
    /\ pc' = "loaded"
    /\ UNCHANGED <<price_in, price_out, page, emitted, site, pending, visits,
                   delivered, records, files, processed_df, out_dir, out_file>>

\* processed_df = clean_data(raw_df)
CleanData ==
    /\ pc = "loaded"
    /\ processed_df' = clean_data(raw_df)
    /\ log' = Append(log, <<"INFO", "clean_data">>)
    /\ pc' = "cleaned"
    /\ UNCHANGED <<price_in, price_out, page, emitted, site, pending, visits,
                   delivered, records, files, raw_df, out_dir, out_file>>

\* save_processed_data(processed_df, ...) and the end of main.  An empty
\* frame returns at once.  os.makedirs(path, exist_ok=True) stands before the
\* try: on a blocked directory it raises through main.  df.to_csv stands in
\* the try: it writes the file, or fails and the failure is logged.
SaveProcessedData ==
    /\ pc = "cleaned"
    /\ IF IsEmpty(processed_df)
       THEN /\ log' = log \o << <<"WARNING", "save_processed_data">>, <<"INFO", "main">> >>
            /\ pc' = "done"
            /\ UNCHANGED <<out_dir, out_file>>
       ELSE IF out_dir = "blocked"
       THEN /\ pc' = "crashed"
            /\ UNCHANGED <<out_dir, out_file, log>>
       ELSE \E written \in BOOLEAN :
            /\ out_dir' = IF out_dir = "absent" THEN "created" ELSE out_dir
            /\ out_file' = IF written
                           THEN [exists |-> TRUE,
                                 header |-> processed_df.columns,
                                 rows |-> processed_df.rows]
                           ELSE out_file
            /\ log' = log \o
                 << <<IF written THEN "INFO" ELSE "ERROR", "save_processed_data">>,
                    <<"INFO", "main">> >>
            /\ pc' = "done"
    /\ UNCHANGED <<price_in, price_out, page, emitted, site, pending, visits,
                   delivered, records, files, raw_df, processed_df>>

NextEtl == LoadRawData \/ CleanData \/ SaveProcessedData

SpecEtl == InitEtl /\ [][NextEtl]_vars

AfterClean == pc \in {"cleaned", "done", "crashed"}
AfterLoad == pc = "loaded" \/ AfterClean

\* The positions of the raw batch that hold the first record of their URL.
FirstOfUrl ==
    {k \in 1..Len(raw_df.rows) :
        k = Min({j \in 1..Len(raw_df.rows) :
                    raw_df.rows[j]["product_url"] = raw_df.rows[k]["product_url"]})}

\* The cells clean_data derives from a raw record's price text.
PriceCellsOf(rec) ==
    IF rec["price"] = None THEN <<NaN, NaN, NaN>> ELSE << <<5, 0>>, <<"k">>, USD >>

\* C1: the table clean_data returns has one row per distinct product_url of
\* the raw batch; its j-th row is derived from the record at the j-th of the
\* positions that hold the first record of their URL, so the rows keep the
\* batch order and nothing of a later duplicate survives.
C1_DedupFirstWins ==
    AfterClean =>
        /\ Len(processed_df.rows)
             = Cardinality({raw_df.rows[k]["product_url"] : k \in 1..Len(raw_df.rows)})
        /\ \A j \in 1..Len(processed_df.rows) :
               LET src == raw_df.rows[Sorted(FirstOfUrl)[j]]
                   row == processed_df.rows[j]
               IN  /\ row["location"] = src["location"]
                   /\ <<row["price"], row["unit"], row["currency"]>> = PriceCellsOf(src)

\* C1's case: U1 comes three times; the one row kept is the first record's
\* (no price), not a later one's.
C1_Witness ==
    /\ AfterClean
    /\ Len(raw_df.rows) = 3
    /\ \A k \in 1..3 : raw_df.rows[k]["product_url"] = <<"U1">>
    /\ raw_df.rows[1]["price"] = None
    /\ raw_df.rows[2]["price"] # None
    /\ Len(processed_df.rows) = 1
    /\ processed_df.rows[1]["price"] = NaN

\* C2: after clean_data on a non-empty batch the row at position j carries
\* product_id j, so the identifiers of N rows are 1..N in row order, whatever
\* the site's identifiers were; product_id is the first column.
C2_DenseIdentifiers ==
    (AfterClean /\ raw_df.rows # <<>>) =>
        /\ \A j \in 1..Len(processed_df.rows) : processed_df.rows[j]["product_id"] = j
        /\ processed_df.columns[1] = "product_id"

\* C2's case: a duplicate sits between two kept records, and the site's
\* identifiers are absent on one and repeated on the others.
C2_Witness ==
    /\ AfterClean
    /\ Len(raw_df.rows) = 3
    /\ raw_df.rows[1]["product_url"] = raw_df.rows[2]["product_url"]
    /\ raw_df.rows[1]["product_id"] = None
    /\ raw_df.rows[2]["product_id"] = <<"D", "7">>
    /\ raw_df.rows[3]["product_id"] = <<"D", "7">>
    /\ Len(processed_df.rows) = 2
    /\ processed_df.rows[2]["product_id"] = 2

\* C7 (as claimed): with a non-empty table, main never ends on an exception
\* raised while saving; a save that wrote no file has logged an error and
\* returned.
C7_SaveFailureIsLogged ==
    (pc \in {"done", "crashed"} /\ ~IsEmpty(processed_df)) =>
        /\ pc = "done"
        /\ ~out_file.exists =>
               \E k \in 1..Len(log) : log[k] = <<"ERROR", "save_processed_data">>

NoReadableFile == \A k \in 1..Len(files) : ~files[k].readable

\* The records of the readable files, in glob order.
RECURSIVE ReadableRecords(_)
ReadableRecords(fs) ==
    IF fs = <<>> THEN <<>>
    ELSE (IF Head(fs).readable THEN Head(fs).records ELSE <<>>)
             \o ReadableRecords(Tail(fs))

\* C8: when the raw directory holds no file, or none that can be read, main
\* runs to its end without raising, the loaded batch and the cleaned table are
\* empty, no output file is written and no directory created; in every run the
\* loaded batch holds the records of all readable files, each unreadable file
\* having been skipped with a logged error.
C8_EmptyInput ==
    /\ NoReadableFile =>
           /\ pc # "crashed"
           /\ IsEmpty(raw_df) /\ IsEmpty(processed_df)
           /\ ~out_file.exists
           /\ out_dir # "created"
    /\ pc = "done" => log[Len(log)] = <<"INFO", "main">>
    /\ AfterLoad =>
           /\ raw_df.rows = ReadableRecords(files)
           /\ Cardinality({k \in 1..Len(log) : log[k] = <<"ERROR", "load_raw_data">>})
                = Cardinality({k \in 1..Len(files) : ~files[k].readable})

\* C8's case: two files, neither readable; main has ended and nothing was
\* written.
C8_Witness ==
    /\ pc = "done"
    /\ Len(files) = 2
    /\ NoReadableFile
    /\ out_dir = "absent"
    /\ ~out_file.exists

=============================================================================
